---------------------------- MODULE Spec2Model ----------------------------
(***************************************************************************)
(* Model of the markdown -> Google Docs compiler of the google-docs skill: *)
(*   MarkdownToDocsConverter (docs_client.py 384-691)                      *)
(*   GoogleDocsClient.batch_update / insert_tables (docs_client.py 173-309)*)
(*   create_doc_from_markdown (create.py), update_doc_from_markdown        *)
(*   (update.py)                                                           *)
(* Text is a sequence of one-character strings.  Python indices are kept   *)
(* 0-based as in the source; a TLA+ sequence is read at index + 1.         *)
(***************************************************************************)
EXTENDS Integers, Sequences, FiniteSets, TLC

VARIABLES
    conv,       \* the MarkdownToDocsConverter object and the frame of its convert() call
    conv2,      \* a second converter object, converting another document
    fmt,        \* a call of _parse_inline_formatting: its argument and its result
    flow,       \* create_doc_from_markdown / update_doc_from_markdown: where it stands
    mat,        \* the frame of GoogleDocsClient.insert_tables
    doc,        \* the document held by the host
    old,        \* the document as it was before the latest commit (a stale read)
    calls,      \* the host calls made so far, in order
    faults      \* the host failures and stale reads so far

host == <<doc, old, calls, faults>>

vars == <<conv, conv2, fmt, flow, mat, doc, old, calls, faults>>

(***************************************************************************)
(* Bounds of the model.                                                    *)
(***************************************************************************)
MaxLines == 3
MaxTextLen == 5
MaxFaults == 2
MaxCalls == 2
MaxEdgeLines == 2

(***************************************************************************)
(* Characters.  SANY cannot lex a backquote inside a string, so the        *)
(* backtick character is written BT.                                       *)
(***************************************************************************)
NL == "\n"
BT == "bt"

\* the whitespace str.strip() removes and \s matches, as far as the inputs use it
WS == {" "}

Min(S) == CHOOSE x \in S : \A y \in S : x <= y
Max(S) == CHOOSE x \in S : \A y \in S : x >= y

\* seq[a:b] of Python, 0-based and half-open, clamped to the sequence
Slice(s, a, b) == SubSeq(s, a + 1, IF b < Len(s) THEN b ELSE Len(s))

\* s[a:] of Python
SliceFrom(s, a) == SubSeq(s, a + 1, Len(s))

\* str.strip()
strip(s) ==
    LET keep == {k \in 1..Len(s) : s[k] \notin WS}
    IN  IF keep = {} THEN <<>> ELSE SubSeq(s, Min(keep), Max(keep))

\* str.startswith(p)
startswith(s, p) == Len(s) >= Len(p) /\ SubSeq(s, 1, Len(p)) = p

\* str.find(pat, start): the lowest 0-based position >= start, or -1
find(s, pat, start) ==
    LET hits == {k \in start..(Len(s) - Len(pat)) : Slice(s, k, k + Len(pat)) = pat}
    IN  IF hits = {} THEN -1 ELSE Min(hits)

\* str.split(c) for a one-character separator
RECURSIVE split(_, _)
split(s, c) ==
    LET P == {k \in 1..Len(s) : s[k] = c}
    IN  IF P = {} THEN <<s>>
        ELSE <<SubSeq(s, 1, Min(P) - 1)>> \o split(SubSeq(s, Min(P) + 1, Len(s)), c)

\* c.join(parts)
RECURSIVE join(_, _)
join(parts, c) ==
    IF Len(parts) = 0 THEN <<>>
    ELSE IF Len(parts) = 1 THEN parts[1]
    ELSE parts[1] \o <<c>> \o join(Tail(parts), c)

\* reversed(seq)
reversed(s) == [k \in 1..Len(s) |-> s[Len(s) + 1 - k]]

\* the number of leading whitespace characters: what ^(\s*) captures
LeadingWS(s) ==
    LET non == {k \in 1..Len(s) : s[k] \notin WS}
    IN  IF non = {} THEN Len(s) ELSE Min(non) - 1

(***************************************************************************)
(* The request objects the converter appends to self.requests.             *)
(***************************************************************************)
InsertTextReq(idx, text) ==
    [op |-> "insertText", index |-> idx, text |-> text]

UpdateParagraphStyleReq(s, e, style, magnitude) ==
    [op |-> "updateParagraphStyle", startIndex |-> s, endIndex |-> e,
     style |-> style, magnitude |-> magnitude]

UpdateTextStyleReq(s, e, style) ==
    [op |-> "updateTextStyle", startIndex |-> s, endIndex |-> e, style |-> style]

CreateBulletsReq(s, e, preset) ==
    [op |-> "createParagraphBullets", startIndex |-> s, endIndex |-> e,
     style |-> preset]

(***************************************************************************)
(* _parse_inline_formatting: one left-to-right scan.  st is the loop's     *)
(* state [i, result, spans]; a span is <<start, end, style>>.              *)
(***************************************************************************)
Span(result, content, style) ==
    <<Len(result), Len(result) + Len(content), style>>

\* the bold test without its second half: the closing ** is not looked for
BoldAtAnyOpener(text, i) == Slice(text, i, i + 2) = <<"*", "*">>

BoldAt(text, i) ==
    /\ Slice(text, i, i + 2) = <<"*", "*">>
    /\ find(text, <<"*", "*">>, i + 2) # -1

ItalicAt(text, i) ==
    /\ text[i + 1] = "*"
    /\ (i = 0 \/ text[i] # "*")
    /\ (i + 1 < Len(text) /\ text[i + 2] # "*")
    /\ LET end == find(text, <<"*">>, i + 1)
       IN  end # -1 /\ (end + 1 >= Len(text) \/ text[end + 2] # "*")

CodeAt(text, i) ==
    /\ text[i + 1] = BT
    /\ find(text, <<BT>>, i + 1) # -1

InlineStep(text, st) ==
    LET i == st.i IN
    IF BoldAt(text, i) THEN
        LET end == find(text, <<"*", "*">>, i + 2)
            content == Slice(text, i + 2, end)
        IN  [i |-> end + 2, result |-> st.result \o content,
             spans |-> Append(st.spans, Span(st.result, content, "bold"))]
    ELSE IF ItalicAt(text, i) THEN
        LET end == find(text, <<"*">>, i + 1)
            content == Slice(text, i + 1, end)
        IN  [i |-> end + 1, result |-> st.result \o content,
             spans |-> Append(st.spans, Span(st.result, content, "italic"))]
    ELSE IF CodeAt(text, i) THEN
        LET end == find(text, <<BT>>, i + 1)
            content == Slice(text, i + 1, end)
        IN  [i |-> end + 1, result |-> st.result \o content,
             spans |-> Append(st.spans, Span(st.result, content, "Courier New"))]
    ELSE [i |-> i + 1, result |-> Append(st.result, text[i + 1]),
          spans |-> st.spans]

RECURSIVE InlineLoop(_, _)
InlineLoop(text, st) ==
    IF st.i < Len(text) THEN InlineLoop(text, InlineStep(text, st)) ELSE st

_parse_inline_formatting(text) ==
    LET st == InlineLoop(text, [i |-> 0, result |-> <<>>, spans |-> <<>>])
    IN  [clean |-> st.result, spans |-> st.spans]


(***************************************************************************)
(* The emitter methods.  c is the converter: its fields index, requests    *)
(* and pending_tables, and the locals of the running convert() call.       *)
(* pending_tables is created by the first _add_table (hasattr, 677-678)    *)
(* and read through getattr(..., []): the absent attribute is <<>>.        *)
(***************************************************************************)
\* _add_text without line 497: the request is appended, the cursor stays
AddTextCursorKept(c, text) ==
    [c EXCEPT !.requests = Append(@, InsertTextReq(c.index, text))]

_add_text(c, text) ==
    [c EXCEPT !.requests = Append(@, InsertTextReq(c.index, text)),
              !.index = @ + Len(text)]

\* the span loop without abs_start = start + span_start: the spans are sent
\* as the formatter returned them, relative to the block
SpanRequestsRelative(start, spans) ==
    [k \in 1..Len(spans) |->
        UpdateTextStyleReq(spans[k][1], spans[k][2], spans[k][3])]

\* the spans of one block, made absolute from the block's start offset
SpanRequests(start, spans) ==
    [k \in 1..Len(spans) |->
        UpdateTextStyleReq(start + spans[k][1], start + spans[k][2], spans[k][3])]

\* _add_heading with its two steps swapped: the paragraph style is requested
\* for the range before the text is inserted there
AddHeadingStyleFirst(c, text, style) ==
    LET c1 == [c EXCEPT !.requests =
                  Append(@, UpdateParagraphStyleReq(c.index, c.index + Len(text) + 1,
                                                    style, 0))]
    IN  _add_text(c1, Append(text, NL))

_add_heading(c, text, style) ==
    LET c1 == _add_text(c, Append(text, NL))
    IN  [c1 EXCEPT !.requests =
            Append(@, UpdateParagraphStyleReq(c.index, c1.index, style, 0))]

_add_paragraph(c, text) ==
    LET f == _parse_inline_formatting(text)
        c1 == _add_text(c, Append(f.clean, NL))
    IN  [c1 EXCEPT !.requests = @ \o SpanRequests(c.index, f.spans)]

\* the indent with a fixed magnitude: 36 points at every level above 0
IndentRequestsFlat(start, end, nesting_level) ==
    IF nesting_level > 0
    THEN <<UpdateParagraphStyleReq(start, end, "indentStart", 36)>>
    ELSE <<>>

IndentRequests(start, end, nesting_level) ==
    IF nesting_level > 0
    THEN <<UpdateParagraphStyleReq(start, end, "indentStart", 36 * nesting_level)>>
    ELSE <<>>

AddListItem(c, text, nesting_level, preset) ==
    LET f == _parse_inline_formatting(text)
        c1 == _add_text(c, Append(f.clean, NL))
    IN  [c1 EXCEPT !.requests =
            Append(@, CreateBulletsReq(c.index, c1.index, preset))
            \o IndentRequests(c.index, c1.index, nesting_level)
            \o SpanRequests(c.index, f.spans)]

_add_bullet(c, text, nesting_level) ==
    AddListItem(c, text, nesting_level, "BULLET_DISC_CIRCLE_SQUARE")

_add_numbered(c, text, nesting_level) ==
    AddListItem(c, text, nesting_level, "NUMBERED_DECIMAL_ALPHA_ROMAN")

\* _add_code_block whose style step moves the cursor past the block
AddCodeBlockMovesCursor(c, code_lines) ==
    LET c1 == _add_text(c, Append(join(code_lines, NL), NL))
    IN  [c1 EXCEPT !.requests = @ \o
            <<UpdateTextStyleReq(c.index, c1.index, "Courier New 10"),
              UpdateParagraphStyleReq(c.index, c1.index, "shading", 0)>>,
                   !.index = @ + 1]

_add_code_block(c, code_lines) ==
    LET c1 == _add_text(c, Append(join(code_lines, NL), NL))
    IN  [c1 EXCEPT !.requests = @ \o
            <<UpdateTextStyleReq(c.index, c1.index, "Courier New 10"),
              UpdateParagraphStyleReq(c.index, c1.index, "shading", 0)>>]

TablePlaceholder == <<"[", "T", "A", "B", "L", "E", "]", NL>>

_add_table(c, rows) ==
    IF rows = <<>> THEN c
    ELSE _add_text([c EXCEPT !.pending_tables = Append(@, rows)], TablePlaceholder)

get_pending_tables(c) == c.pending_tables

_add_horizontal_rule(c) == _add_text(c, <<"-", "-", "-", NL>>)

(***************************************************************************)
(* The line tests of convert().                                            *)
(***************************************************************************)
Fence == <<BT, BT, BT>>

\* line.strip().startswith(three backticks)
IsFenceLine(line) == startswith(strip(line), Fence)

\* '|' in line and line.strip().startswith('|')
IsPipeLine(line) ==
    /\ {k \in 1..Len(line) : line[k] = "|"} # {}
    /\ startswith(strip(line), <<"|">>)

\* re.match(r'^\|[\s\-:]+\|', line.strip())
IsSeparatorRow(line) ==
    LET s == strip(line)
    IN  /\ Len(s) >= 3
        /\ s[1] = "|"
        /\ {k \in 3..Len(s) :
                /\ s[k] = "|"
                /\ \A j \in 2..(k - 1) : s[j] \in WS \cup {"-", ":"}} # {}

\* [c.strip() for c in line.split('|')[1:-1]]
RowCells(line) ==
    LET parts == split(line, "|")
        inner == SubSeq(parts, 2, Len(parts) - 1)
    IN  [k \in 1..Len(inner) |-> strip(inner[k])]

Digits == {"0", "1", "2", "3", "4", "5", "6", "7", "8", "9"}

\* the end (0-based, exclusive) of the run of characters of class S that starts at a
RunEnd(s, a, S) ==
    LET stop == {k \in (a + 1)..Len(s) : s[k] \notin S}
    IN  IF stop = {} THEN Len(s) ELSE Min(stop) - 1

\* re.match(r'^(\s*)[-*]\s+', line)
BulletHead(line) ==
    LET n == LeadingWS(line)
    IN  /\ Len(line) >= n + 2
        /\ line[n + 1] \in {"-", "*"}
        /\ line[n + 2] \in WS

\* re.match(r'^(\s*)\d+\.\s+', line)
NumberedHead(line) ==
    LET n == LeadingWS(line)
        d == RunEnd(line, n, Digits)
    IN  /\ d > n
        /\ Len(line) >= d + 2
        /\ line[d + 1] = "."
        /\ line[d + 2] \in WS

\* group(2) of  <head>\s+(.+)  where the whitespace run starts at a (0-based):
\* \s+ is greedy and gives back one character when nothing is left for (.+).
\* <<>> stands for "no match".
RestAfterWS(line, a) ==
    LET e == RunEnd(line, a, WS)
    IN  IF e < Len(line) THEN SliceFrom(line, e)
        ELSE IF e - a >= 2 THEN SliceFrom(line, e - 1)
        ELSE <<>>

\* match.group(2) of re.match(r'^(\s*)[-*]\s+(.+)', line)
BulletText(line) == RestAfterWS(line, LeadingWS(line) + 1)

\* match.group(2) of re.match(r'^(\s*)\d+\.\s+(.+)', line)
NumberedText(line) ==
    RestAfterWS(line, RunEnd(line, LeadingWS(line), Digits) + 1)

\* the if/elif chain of one line outside code and table mode (449-478)
EmitBlock(c, line) ==
    IF startswith(line, <<"#", "#", "#", "#", " ">>)
        THEN _add_heading(c, strip(SliceFrom(line, 5)), "HEADING_4")
    ELSE IF startswith(line, <<"#", "#", "#", " ">>)
        THEN _add_heading(c, strip(SliceFrom(line, 4)), "HEADING_3")
    ELSE IF startswith(line, <<"#", "#", " ">>)
        THEN _add_heading(c, strip(SliceFrom(line, 3)), "HEADING_2")
    ELSE IF startswith(line, <<"#", " ">>)
        THEN _add_heading(c, strip(SliceFrom(line, 2)), "HEADING_1")
    ELSE IF strip(line) \in {<<"-", "-", "-">>, <<"*", "*", "*">>, <<"_", "_", "_">>}
        THEN _add_horizontal_rule(c)
    ELSE IF BulletHead(line)
        THEN IF BulletText(line) # <<>>
             THEN _add_bullet(c, BulletText(line), LeadingWS(line) \div 2)
             ELSE c
    ELSE IF NumberedHead(line)
        THEN IF NumberedText(line) # <<>>
             THEN _add_numbered(c, NumberedText(line), LeadingWS(line) \div 2)
             ELSE c
    ELSE IF strip(line) # <<>>
        THEN _add_paragraph(c, strip(line))
    ELSE c

(***************************************************************************)
(* History of the emission: origin[k] is the 0-based source line on which  *)
(* the block of the k-th InsertText began.  code_start and table_start     *)
(* remember where the open fence and the open table region began, entered  *)
(* counts the convert() calls made on the object.  They are read by no     *)
(* operation of the converter.                                             *)
(***************************************************************************)
IsInsert(r) == r.op = "insertText"

Inserts(reqs) == SelectSeq(reqs, IsInsert)

IsPlaceholder(r) == r.op = "insertText" /\ r.text = TablePlaceholder

Stamp(before, after, src) ==
    [after EXCEPT !.origin =
        @ \o [k \in 1..(Len(Inserts(after.requests)) - Len(Inserts(before.requests)))
                |-> src]]

(***************************************************************************)
(* convert(), one action per kind of loop iteration.                       *)
(***************************************************************************)
\* __init__ (387-389)
NewConverter ==
    [index |-> 1, requests |-> <<>>, pending_tables |-> <<>>,
     pc |-> "idle", lines |-> <<>>, i |-> 0,
     in_code_block |-> FALSE, code_lines |-> <<>>,
     in_table |-> FALSE, table_rows |-> <<>>,
     origin |-> <<>>, code_start |-> 0, table_start |-> 0, entered |-> 0]

\* convert() without lines 401-402: the cursor and the request list are
\* left as the previous call left them
ConvertBeginNoReset(c, markdown_content) ==
    [c EXCEPT !.lines = split(markdown_content, NL), !.i = 0,
              !.in_code_block = FALSE, !.code_lines = <<>>,
              !.in_table = FALSE, !.table_rows = <<>>,
              !.pc = "loop", !.origin = <<>>, !.entered = @ + 1]

\* 401-409
ConvertBegin(c, markdown_content) ==
    [c EXCEPT !.index = 1, !.requests = <<>>,
              !.lines = split(markdown_content, NL), !.i = 0,
              !.in_code_block = FALSE, !.code_lines = <<>>,
              !.in_table = FALSE, !.table_rows = <<>>,
              !.pc = "loop", !.origin = <<>>, !.entered = @ + 1]

Looping(c) == c.pc = "loop" /\ c.i < Len(c.lines)

CurLine(c) == c.lines[c.i + 1]

\* 415-423
FenceStep(c) ==
    IF c.in_code_block
    THEN [Stamp(c, _add_code_block(c, c.code_lines), c.code_start)
            EXCEPT !.code_lines = <<>>, !.in_code_block = FALSE, !.i = @ + 1]
    ELSE [c EXCEPT !.in_code_block = TRUE, !.code_start = c.i, !.i = @ + 1]

\* 425-428
CodeStep(c) ==
    [c EXCEPT !.code_lines = Append(@, CurLine(c)), !.i = @ + 1]

\* 431-442
TableStep(c) ==
    LET line == CurLine(c)
        cells == RowCells(line)
    IN  IF IsSeparatorRow(line) THEN [c EXCEPT !.i = @ + 1]
        ELSE IF cells # <<>>
        THEN [c EXCEPT !.in_table = TRUE,
                       !.table_start = IF c.in_table THEN @ ELSE c.i,
                       !.table_rows = Append(IF c.in_table THEN @ ELSE <<>>, cells),
                       !.i = @ + 1]
        ELSE [c EXCEPT !.i = @ + 1]

\* 443-446
FlushTable(c) ==
    [Stamp(c, _add_table(c, c.table_rows), c.table_start)
        EXCEPT !.table_rows = <<>>, !.in_table = FALSE]

\* 443-480
BlockStep(c) ==
    LET c1 == IF c.in_table THEN FlushTable(c) ELSE c
        c2 == Stamp(c1, EmitBlock(c1, CurLine(c)), c.i)
    IN  [c2 EXCEPT !.i = @ + 1]

\* convert() without lines 483-484: an open table region is not flushed
ConvertEndNoFlush(c) == [c EXCEPT !.pc = "returned"]

\* 482-486
ConvertEnd(c) ==
    LET c1 == IF c.in_table /\ c.table_rows # <<>>
              THEN Stamp(c, _add_table(c, c.table_rows), c.table_start)
              ELSE c
    IN  [c1 EXCEPT !.pc = "returned"]

\* one iteration of the while loop (411-480): the branch the line takes
LoopBody(c) ==
    IF IsFenceLine(CurLine(c)) THEN FenceStep(c)
    ELSE IF c.in_code_block THEN CodeStep(c)
    ELSE IF IsPipeLine(CurLine(c)) THEN TableStep(c)
    ELSE BlockStep(c)

RECURSIVE RunLoop(_)
RunLoop(c) == IF Looping(c) THEN RunLoop(LoopBody(c)) ELSE ConvertEnd(c)

\* convert() run from entry to return on converter c
convert(c, markdown_content) == RunLoop(ConvertBegin(c, markdown_content))

(***************************************************************************)
(* The document host, as the client sees it through documents().get and    *)
(* documents().batchUpdate.  A document is                                 *)
(*    body    the text before the first table, without the newline that    *)
(*            ends it; its k-th character has index k (the body starts at  *)
(*            index 1, docs_client.py 388)                                 *)
(*    tables  the tables, in document order; a table is a sequence of rows *)
(*            of cells, a cell the text of its paragraph without the       *)
(*            paragraph's closing newline                                  *)
(*    styles  the style requests committed so far.                         *)
(* insertTable at endOfSegmentLocation puts a newline and the table before *)
(* the document's final newline.  A table, a row and a cell each take one  *)
(* index before their content, and a cell holds one paragraph: its text    *)
(* and a closing newline.                                                  *)
(***************************************************************************)
EmptyDoc == [body |-> <<>>, tables |-> <<>>, styles |-> <<>>]

RECURSIVE Sum(_)
Sum(ns) == IF ns = <<>> THEN 0 ELSE Head(ns) + Sum(Tail(ns))

CellSize(cell) == Len(cell) + 2

RowSize(row) == 1 + Sum([k \in 1..Len(row) |-> CellSize(row[k])])

TableSize(tbl) == 1 + Sum([k \in 1..Len(tbl) |-> RowSize(tbl[k])])

\* the startIndex of the t-th table element
TableStart(d, t) ==
    Len(d.body) + 2 + Sum([u \in 1..(t - 1) |-> TableSize(d.tables[u]) + 1])

\* cell_data['content'][0]['startIndex'] of cell (r, c) of table t, r and c from 1
CellStart(d, t, r, c) ==
    LET tbl == d.tables[t]
    IN  TableStart(d, t) + 1
        + Sum([r2 \in 1..(r - 1) |-> RowSize(tbl[r2])]) + 1
        + Sum([c2 \in 1..(c - 1) |-> CellSize(tbl[r][c2])]) + 1

\* cell_data['content'][0]['endIndex']
CellEnd(d, t, r, c) == CellStart(d, t, r, c) + Len(d.tables[t][r][c]) + 1

\* the endIndex of the last element of the body: one past the final newline
DocEnd(d) ==
    IF d.tables = <<>> THEN Len(d.body) + 2
    ELSE TableStart(d, Len(d.tables)) + TableSize(d.tables[Len(d.tables)]) + 1

InsertInto(text, pos, new) ==
    SubSeq(text, 1, pos) \o new \o SubSeq(text, pos + 1, Len(text))

CellsOf(d) ==
    UNION {UNION {{<<t, r, c>> : c \in 1..Len(d.tables[t][r])}
                    : r \in 1..Len(d.tables[t])}
            : t \in 1..Len(d.tables)}

\* insertText at index x: inside the body, or inside the paragraph of a cell.
\* An index on a table, row or cell boundary is rejected by the host.  The
\* one-newline paragraphs between and after the tables are not insertion
\* targets of the model: the client never computes an offset there.
HostInsertText(d, x, text) ==
    IF 1 <= x /\ x <= Len(d.body) + 1
    THEN [ok |-> TRUE, doc |-> [d EXCEPT !.body = InsertInto(@, x - 1, text)]]
    ELSE LET hit == {p \in CellsOf(d) :
                        /\ CellStart(d, p[1], p[2], p[3]) <= x
                        /\ x < CellEnd(d, p[1], p[2], p[3])}
         IN  IF hit = {} THEN [ok |-> FALSE, doc |-> d]
             ELSE LET p == CHOOSE q \in hit : TRUE
                  IN  [ok |-> TRUE,
                       doc |-> [d EXCEPT !.tables[p[1]][p[2]][p[3]] =
                                   InsertInto(@, x - CellStart(d, p[1], p[2], p[3]), text)]]

InsertTableReq(rows, columns) ==
    [op |-> "insertTable", rows |-> rows, columns |-> columns]

DeleteContentRangeReq(s, e) ==
    [op |-> "deleteContentRange", startIndex |-> s, endIndex |-> e]

HostRequest(d, req) ==
    IF req.op = "insertText" THEN HostInsertText(d, req.index, req.text)
    ELSE IF req.op = "insertTable"
        THEN [ok |-> TRUE,
              doc |-> [d EXCEPT !.tables =
                          Append(@, [r \in 1..req.rows |-> [c \in 1..req.columns |-> <<>>]])]]
    ELSE IF req.op = "deleteContentRange"
        THEN IF req.startIndex = 1 /\ req.startIndex < req.endIndex
                /\ req.endIndex = DocEnd(d) - 1
             THEN [ok |-> TRUE, doc |-> EmptyDoc]
             ELSE [ok |-> FALSE, doc |-> d]
    ELSE [ok |-> TRUE, doc |-> [d EXCEPT !.styles = Append(@, req)]]

\* documents().batchUpdate: the requests apply in order, all or none.  A style
\* request is recorded as sent; a commit the host refuses for another reason is
\* one of the failures of Commit below.
RECURSIVE HostBatch(_, _)
HostBatch(d, reqs) ==
    IF reqs = <<>> THEN [ok |-> TRUE, doc |-> d]
    ELSE LET one == HostRequest(d, Head(reqs))
         IN  IF one.ok THEN HostBatch(one.doc, Tail(reqs)) ELSE [ok |-> FALSE, doc |-> d]

(***************************************************************************)
(* insert_tables (197-309): what it computes between two host calls.       *)
(***************************************************************************)
\* 213-214
NumRows(table_rows) == Len(table_rows)

NumCols(table_rows) ==
    IF table_rows = <<>> THEN 0
    ELSE Max({Len(table_rows[r]) : r \in 1..Len(table_rows)})

\* 238-242: the last table of the snapshot, 0 when it shows none
LastTable(snapshot) == Len(snapshot.tables)

\* the loops of 252-253 nested the other way round: column by column
RowMajorByColumn(tbl, r) ==
    IF tbl = <<>> THEN <<>>
    ELSE [k \in 1..(Len(tbl) * Len(tbl[1])) |->
            <<((k - 1) % Len(tbl)) + 1, ((k - 1) \div Len(tbl)) + 1>>]

\* the cells of a table in the order of the two enumerate() loops (252-253)
RECURSIVE RowMajor(_, _)
RowMajor(tbl, r) ==
    IF r > Len(tbl) THEN <<>>
    ELSE [c \in 1..Len(tbl[r]) |-> <<r, c>>] \o RowMajor(tbl, r + 1)

\* 249-266: one insertText per snapshot cell that has a non-empty text in
\* table_rows, at the start of the cell's paragraph
CellRequests(snapshot, t, table_rows) ==
    LET cells == RowMajor(snapshot.tables[t], 1)
        HasText(p) ==
            /\ p[1] <= Len(table_rows)
            /\ p[2] <= Len(table_rows[p[1]])
            /\ table_rows[p[1]][p[2]] # <<>>
        filled == SelectSeq(cells, HasText)
    IN  [k \in 1..Len(filled) |->
            InsertTextReq(CellStart(snapshot, t, filled[k][1], filled[k][2]),
                          table_rows[filled[k][1]][filled[k][2]])]

\* line 272 without reversed(): the cell requests in the order they were built
ContentBatchInBuildOrder(cell_requests) == cell_requests

\* 272: the batch of the content commit
ContentBatch(cell_requests) == reversed(cell_requests)

\* 293 with end_idx in place of end_idx - 1: the range takes in the
\* paragraph's closing newline
BoldRequestsWithBreak(snapshot) ==
    LET t == LastTable(snapshot)
    IN  IF t = 0 \/ snapshot.tables[t] = <<>> THEN <<>>
        ELSE LET first_row == snapshot.tables[t][1]
                 HasContent(c) == CellEnd(snapshot, t, 1, c) > CellStart(snapshot, t, 1, c) + 1
                 cols == SelectSeq([c \in 1..Len(first_row) |-> c], HasContent)
             IN  [k \in 1..Len(cols) |->
                    UpdateTextStyleReq(CellStart(snapshot, t, 1, cols[k]),
                                       CellEnd(snapshot, t, 1, cols[k]), "bold")]

\* 279-297: one bold updateTextStyle per cell of the first row of the last
\* table whose paragraph is longer than its closing newline
BoldRequests(snapshot) ==
    LET t == LastTable(snapshot)
    IN  IF t = 0 \/ snapshot.tables[t] = <<>> THEN <<>>
        ELSE LET first_row == snapshot.tables[t][1]
                 HasContent(c) == CellEnd(snapshot, t, 1, c) > CellStart(snapshot, t, 1, c) + 1
                 cols == SelectSeq([c \in 1..Len(first_row) |-> c], HasContent)
             IN  [k \in 1..Len(cols) |->
                    UpdateTextStyleReq(CellStart(snapshot, t, 1, cols[k]),
                                       CellEnd(snapshot, t, 1, cols[k]) - 1, "bold")]

(***************************************************************************)
(* Inputs.                                                                 *)
(***************************************************************************)
LineSet ==
    { <<>>,                                   \* blank
      <<"#", " ", "T">>,                      \* heading
      <<"a", "*", "*", "b", "*", "*">>,       \* paragraph with a bold span
      Fence,                                  \* code fence
      <<"|", "A", "|", "B", "|">>,            \* table row
      <<"|", "-", "|", "-", "|">>,            \* table separator
      <<"|", "C", "|">>,                      \* a shorter table row
      <<"-", " ", "x">>,                      \* bullet
      <<" ", " ", "-", " ", "y">>,            \* nested bullet
      <<"2", ".", " ", "z">>,                 \* numbered item
      <<"-", " ", "*", "c", "*">>,            \* bullet with an italic span
      <<"1", ".", " ", BT, "d", BT>>,         \* numbered item with a code span
      <<"-", "-", "-">>,                      \* horizontal rule
      <<"x">> }                               \* plain text

LineSeqs(S, n) == UNION {[1..k -> S] : k \in 1..n}

ConvertInputs == {join(ls, NL) : ls \in LineSeqs(LineSet, MaxLines)}

\* lines at the edges of the line tests of convert()
EdgeLineSet ==
    { <<>>,                                   \* blank
      <<"x">>,                                \* plain text
      Fence,                                  \* code fence
      <<"|", "A", "|">>,                      \* table row
      <<"|", "-", "|", "-", "|">>,            \* table separator
      <<"|", "-", "|", "x", "|">>,            \* dashes, then a cell with text
      <<"|", "D">>,                           \* no closing pipe
      <<"-", " ">>,                           \* bullet marker, nothing after it
      <<"1", ".", " ">>,                      \* number, nothing after it
      <<" ", "-", " ", "y">>,                 \* bullet, 1 leading space
      <<" ", " ", " ", " ", "-", " ", "y">>,  \* bullet, 4 leading spaces
      <<" ", " ", " ", "2", ".", " ", "z">> } \* numbered item, 3 leading spaces

EdgeInputs == {join(ls, NL) : ls \in LineSeqs(EdgeLineSet, MaxEdgeLines)}

InlineAlphabet == {"*", BT, "a"}

InlineInputs == UNION {[1..k -> InlineAlphabet] : k \in 0..MaxTextLen}

(***************************************************************************)
(* Actions of the converter.                                               *)
(***************************************************************************)
NoFormat == [pc |-> "idle", text |-> <<>>, clean |-> <<>>, spans |-> <<>>]

\* converter.convert(content) is entered
Convert(inputs) ==
    /\ conv.pc # "loop"
    /\ \E markdown_content \in inputs : conv' = ConvertBegin(conv, markdown_content)
    /\ UNCHANGED <<conv2, fmt, flow, mat, host>>

FenceLine ==
    /\ Looping(conv)
    /\ IsFenceLine(CurLine(conv))
    /\ conv' = FenceStep(conv)
    /\ UNCHANGED <<conv2, fmt, flow, mat, host>>

CodeLine ==
    /\ Looping(conv)
    /\ ~IsFenceLine(CurLine(conv))
    /\ conv.in_code_block
    /\ conv' = CodeStep(conv)
    /\ UNCHANGED <<conv2, fmt, flow, mat, host>>

TableLine ==
    /\ Looping(conv)
    /\ ~IsFenceLine(CurLine(conv))
    /\ ~conv.in_code_block
    /\ IsPipeLine(CurLine(conv))
    /\ conv' = TableStep(conv)
    /\ UNCHANGED <<conv2, fmt, flow, mat, host>>

BlockLine ==
    /\ Looping(conv)
    /\ ~IsFenceLine(CurLine(conv))
    /\ ~conv.in_code_block
    /\ ~IsPipeLine(CurLine(conv))
    /\ conv' = BlockStep(conv)
    /\ UNCHANGED <<conv2, fmt, flow, mat, host>>

ConvertReturn ==
    /\ conv.pc = "loop"
    /\ conv.i >= Len(conv.lines)
    /\ conv' = ConvertEnd(conv)
    /\ UNCHANGED <<conv2, fmt, flow, mat, host>>

FirstConvert == conv.pc = "idle" /\ Convert(ConvertInputs)

\* the same three steps of convert() on the second converter object: every
\* attribute the method reads or writes is an attribute of self (388-389,
\* 401-402, 677-680), its other names are locals of the call (404-409)
PeerConvert(inputs) ==
    /\ conv2.pc = "idle"
    /\ \E markdown_content \in inputs : conv2' = ConvertBegin(conv2, markdown_content)
    /\ UNCHANGED <<conv, fmt, flow, mat, host>>

\* self.index as an attribute of the class: a step of one object moves the
\* cursor of the other
PeerLineSharedCursor ==
    /\ Looping(conv2)
    /\ conv2' = LoopBody(conv2)
    /\ conv' = [conv EXCEPT !.index = conv2'.index]
    /\ UNCHANGED <<fmt, flow, mat, host>>

PeerLine ==
    /\ Looping(conv2)
    /\ conv2' = LoopBody(conv2)
    /\ UNCHANGED <<conv, fmt, flow, mat, host>>

PeerReturn ==
    /\ conv2.pc = "loop"
    /\ conv2.i >= Len(conv2.lines)
    /\ conv2' = ConvertEnd(conv2)
    /\ UNCHANGED <<conv, fmt, flow, mat, host>>

\* one call of the inline formatter on a text
FormatCall ==
    /\ fmt.pc = "idle"
    /\ \E text \in InlineInputs :
          LET f == _parse_inline_formatting(text)
          IN  fmt' = [pc |-> "done", text |-> text, clean |-> f.clean, spans |-> f.spans]
    /\ UNCHANGED <<conv, conv2, flow, mat, host>>

(***************************************************************************)
(* Host calls.  A commit or a fetch may fail (the client library raises),  *)
(* and a fetch may return the document as it was before the latest commit  *)
(* (an eventually consistent host).  At most MaxFaults such events occur   *)
(* in one behaviour.                                                       *)
(***************************************************************************)
MayFault == faults < MaxFaults

\* a client that answers a failed commit by undoing the commit before it
CommitUndoingLast(requests, fail) ==
    IF fail THEN [ok |-> FALSE, doc |-> old] ELSE HostBatch(doc, requests)

\* the result of documents().batchUpdate(requests)
Commit(requests, fail) ==
    IF fail THEN [ok |-> FALSE, doc |-> doc] ELSE HostBatch(doc, requests)

LogCommit(phase, k, requests, ok) ==
    [call |-> "batchUpdate", phase |-> phase, table |-> k,
     requests |-> requests, ok |-> ok, stale |-> FALSE]

LogGet(phase, k, ok, stale) ==
    [call |-> "get", phase |-> phase, table |-> k,
     requests |-> <<>>, ok |-> ok, stale |-> stale]

\* the host variables after a commit with result out
Committed(out, entry, fail) ==
    /\ doc' = out.doc
    /\ old' = IF out.ok THEN doc ELSE old
    /\ calls' = Append(calls, entry)
    /\ faults' = IF fail THEN faults + 1 ELSE faults

\* the host variables after a fetch
Fetched(entry, fault) ==
    /\ calls' = Append(calls, entry)
    /\ faults' = IF fault THEN faults + 1 ELSE faults
    /\ UNCHANGED <<doc, old>>

FetchOutcomes == {"fresh", "stale", "fail"}

FetchAllowed(outcome) ==
    /\ outcome = "stale" => (MayFault /\ old # doc)
    /\ outcome = "fail" => MayFault

(***************************************************************************)
(* insert_tables (197-309), one action per host call.                      *)
(***************************************************************************)
NoTables ==
    [pc |-> "idle", tables |-> <<>>, k |-> 0, cell_requests |-> <<>>,
     bold_requests |-> <<>>, result |-> "none", warned |-> {}, fresh |-> FALSE]

\* insert_tables that starts a table at its snapshot fetch, without the
\* structural insert
MatBeginAtFetch(tables) ==
    IF tables = <<>>
    THEN [NoTables EXCEPT !.pc = "returned", !.result = "True"]
    ELSE [NoTables EXCEPT !.pc = "fetch1", !.tables = tables, !.k = 1]

\* 208-212
MatBegin(tables) ==
    IF tables = <<>>
    THEN [NoTables EXCEPT !.pc = "returned", !.result = "True"]
    ELSE [NoTables EXCEPT !.pc = "insert", !.tables = tables, !.k = 1]

\* the for loop moves to the next table
MatNext(m) ==
    [m EXCEPT !.pc = "insert", !.k = @ + 1, !.cell_requests = <<>>,
              !.bold_requests = <<>>, !.fresh = FALSE]

\* 307-309
MatRaise(m) == [m EXCEPT !.pc = "returned", !.result = "False"]

MatTable == mat.tables[mat.k]

\* 213-231: the structural insert of the current table, committed alone
MatInsert ==
    /\ mat.pc = "insert"
    /\ mat.k <= Len(mat.tables)
    /\ IF NumRows(MatTable) = 0 \/ NumCols(MatTable) = 0
       THEN mat' = MatNext(mat) /\ UNCHANGED host
       ELSE \E fail \in BOOLEAN :
              /\ fail => MayFault
              /\ LET reqs == <<InsertTableReq(NumRows(MatTable), NumCols(MatTable))>>
                     out == Commit(reqs, fail)
                 IN  /\ Committed(out, LogCommit("insert", mat.k, reqs, out.ok), fail)
                     /\ mat' = IF out.ok THEN [mat EXCEPT !.pc = "fetch1"]
                               ELSE MatRaise(mat)
    /\ UNCHANGED <<conv, conv2, fmt, flow>>

\* 233-266: the snapshot after the structural insert, and the cell requests
MatFetch1 ==
    /\ mat.pc = "fetch1"
    /\ \E outcome \in FetchOutcomes :
          /\ FetchAllowed(outcome)
          /\ Fetched(LogGet("fetch1", mat.k, outcome # "fail", outcome = "stale"),
                     outcome # "fresh")
          /\ IF outcome = "fail" THEN mat' = MatRaise(mat)
             ELSE LET snapshot == IF outcome = "stale" THEN old ELSE doc
                      t == LastTable(snapshot)
                  IN  IF t = 0
                      THEN mat' = [MatNext(mat) EXCEPT !.warned = @ \cup {mat.k}]
                      ELSE LET reqs == CellRequests(snapshot, t, MatTable)
                           IN  mat' = [mat EXCEPT
                                        !.cell_requests = reqs,
                                        !.fresh = (outcome = "fresh"),
                                        !.pc = IF reqs # <<>> THEN "content" ELSE "fetch2"]
    /\ UNCHANGED <<conv, conv2, fmt, flow>>

\* 268-273: the content commit
MatContent ==
    /\ mat.pc = "content"
    /\ \E fail \in BOOLEAN :
          /\ fail => MayFault
          /\ LET reqs == ContentBatch(mat.cell_requests)
                 out == Commit(reqs, fail)
             IN  /\ Committed(out, LogCommit("content", mat.k, reqs, out.ok), fail)
                 /\ mat' = IF out.ok THEN [mat EXCEPT !.pc = "fetch2"]
                           ELSE MatRaise(mat)
    /\ UNCHANGED <<conv, conv2, fmt, flow>>

\* 275-297: the snapshot after the content commit, and the bold requests
MatFetch2 ==
    /\ mat.pc = "fetch2"
    /\ \E outcome \in FetchOutcomes :
          /\ FetchAllowed(outcome)
          /\ Fetched(LogGet("fetch2", mat.k, outcome # "fail", outcome = "stale"),
                     outcome # "fresh")
          /\ IF outcome = "fail" THEN mat' = MatRaise(mat)
             ELSE LET snapshot == IF outcome = "stale" THEN old ELSE doc
                      reqs == BoldRequests(snapshot)
                  IN  mat' = IF reqs # <<>>
                             THEN [mat EXCEPT !.bold_requests = reqs, !.pc = "bold"]
                             ELSE MatNext(mat)
    /\ UNCHANGED <<conv, conv2, fmt, flow>>

\* 298-303: the header-bold commit
MatBold ==
    /\ mat.pc = "bold"
    /\ \E fail \in BOOLEAN :
          /\ fail => MayFault
          /\ LET out == Commit(mat.bold_requests, fail)
             IN  /\ Committed(out, LogCommit("bold", mat.k, mat.bold_requests, out.ok), fail)
                 /\ mat' = IF out.ok THEN MatNext(mat) ELSE MatRaise(mat)
    /\ UNCHANGED <<conv, conv2, fmt, flow>>

\* 305: the loop is exhausted
MatReturn ==
    /\ mat.pc = "insert"
    /\ mat.k > Len(mat.tables)
    /\ mat' = [mat EXCEPT !.pc = "returned", !.result = "True"]
    /\ UNCHANGED <<conv, conv2, fmt, flow, host>>

(***************************************************************************)
(* create_doc_from_markdown (create.py 62-84) and update_doc_from_markdown *)
(* (update.py 83-115).                                                     *)
(***************************************************************************)
NoFlow == [kind |-> "none", append |-> FALSE, pc |-> "none",
           cleared |-> "none", success |-> "none", tables_ok |-> "none"]

FlowInputs ==
    { join(<< <<"|", "A", "B", "|", "C", "|">>,
               <<"|", "-", "|", "-", "|">>,
               <<"|", "D", "|">> >>, NL),
      join(<< <<"|", "A", "B", "|", "C", "|">>,
               <<"x">>,
               <<"|", "D", "|", "|", "E", "F", "|">> >>, NL),
      join(<< <<"|", "A", "|">>,
               Fence,
               <<"y">>,
               Fence >>, NL),
      join(<< <<"#", " ", "T">>,
               <<"*", "*", "b", "*", "*">> >>, NL),
      join(<< <<"|", "|">>,
               <<"x">>,
               <<"|", "|">>,
               <<"|", "D", "|">> >>, NL),
      join(<< <<"|", "A", "|">>,
               <<"|", "B", "|", "C", "|">> >>, NL) }

ExistingDocs ==
    { [body |-> <<"o", "l", "d">>, tables |-> <<>>, styles |-> <<>>],
      [body |-> <<"o">>, tables |-> << << << <<"Q">> >> >> >>, styles |-> <<>>] }

\* the elements of body.content: the leading section break, the paragraphs of
\* the body text and, per table, the table and the paragraph before it
ContentElements(d) ==
    1 + Len(SelectSeq(d.body, LAMBDA ch : ch = NL)) + 1 + 2 * Len(d.tables)

\* update.py 92-95 with clear_document (docs_client.py 126-171): the document
\* is fetched, then everything from index 1 to the last endIndex minus one is
\* deleted; a failed fetch or commit makes it report False and leaves the
\* document alone
FlowClear ==
    /\ flow.kind = "update"
    /\ flow.pc = "clear"
    /\ \E outcome \in {"deleted", "get_failed", "delete_failed"} :
          /\ outcome # "deleted" => MayFault
          /\ IF outcome = "get_failed"
             THEN /\ Fetched(LogGet("clear", 0, FALSE, FALSE), TRUE)
                  /\ flow' = [flow EXCEPT !.pc = "convert", !.cleared = "False"]
             ELSE IF ContentElements(doc) <= 1 \/ DocEnd(doc) <= 1
             THEN /\ Fetched(LogGet("clear", 0, TRUE, FALSE), FALSE)
                  /\ outcome = "deleted"
                  /\ flow' = [flow EXCEPT !.pc = "convert", !.cleared = "True"]
             ELSE LET reqs == <<DeleteContentRangeReq(1, DocEnd(doc) - 1)>>
                      out == Commit(reqs, outcome = "delete_failed")
                  IN  /\ doc' = out.doc
                      /\ old' = IF out.ok THEN doc ELSE old
                      /\ calls' = calls \o <<LogGet("clear", 0, TRUE, FALSE),
                                             LogCommit("clear", 0, reqs, out.ok)>>
                      /\ faults' = IF outcome = "delete_failed" THEN faults + 1 ELSE faults
                      /\ flow' = [flow EXCEPT !.pc = "convert",
                                              !.cleared = IF out.ok THEN "True" ELSE "False"]
    /\ UNCHANGED <<conv, conv2, fmt, mat>>

\* create.py 67-68, update.py 98-99: a new converter converts the content
FlowConvert ==
    /\ flow.pc = "convert"
    /\ conv.pc = "idle"
    /\ Convert(FlowInputs)

\* create.py 71-74, update.py 102-106 with batch_update (docs_client.py 173-195)
FlowBatch1 ==
    /\ flow.pc = "convert"
    /\ conv.pc = "returned"
    /\ IF conv.requests = <<>>
       THEN /\ flow' = [flow EXCEPT !.pc = IF flow.kind = "create" THEN "tables" ELSE "done",
                                    !.success = "True"]
            /\ UNCHANGED host
       ELSE \E fail \in BOOLEAN :
              /\ fail => MayFault
              /\ LET out == Commit(conv.requests, fail)
                 IN  /\ Committed(out, LogCommit("batch1", 0, conv.requests, out.ok), fail)
                     /\ flow' = [flow EXCEPT
                                  !.pc = IF flow.kind = "create" THEN "tables" ELSE "done",
                                  !.success = IF out.ok THEN "True" ELSE "False"]
    /\ UNCHANGED <<conv, conv2, fmt, mat>>

\* create.py 77-79: insert_tables is called when there are pending tables
FlowTables ==
    /\ flow.kind = "create"
    /\ flow.pc = "tables"
    /\ mat.pc = "idle"
    /\ IF get_pending_tables(conv) # <<>>
       THEN mat' = MatBegin(get_pending_tables(conv)) /\ UNCHANGED flow
       ELSE flow' = [flow EXCEPT !.pc = "done"] /\ UNCHANGED mat
    /\ UNCHANGED <<conv, conv2, fmt, host>>

\* create.py 79-84: insert_tables has returned
FlowTablesDone ==
    /\ flow.kind = "create"
    /\ flow.pc = "tables"
    /\ mat.pc = "returned"
    /\ flow' = [flow EXCEPT !.pc = "done", !.tables_ok = mat.result]
    /\ UNCHANGED <<conv, conv2, fmt, mat, host>>

(***************************************************************************)
(* Specifications.                                                         *)
(*   SpecConvert: one convert() call of a fresh converter on every input   *)
(*                of at most MaxLines lines drawn from LineSet.            *)
(*   SpecInline:  _parse_inline_formatting on every text of at most        *)
(*                MaxTextLen characters over InlineAlphabet.               *)
(*   SpecFlow:    the create flow on a new document and the update flow    *)
(*                (replace and append) on an existing one, on the inputs   *)
(*                of FlowInputs, against a host with at most MaxFaults     *)
(*                failures and stale reads.                                *)
(*   SpecPair:    two converter objects, each on one input of FlowInputs,  *)
(*                their steps interleaved in every order.                  *)
(*   SpecEdge:    one convert() call of a fresh converter on every input   *)
(*                of at most MaxEdgeLines lines drawn from EdgeLineSet.    *)
(*   SpecReuse:   one converter object on which convert() is called up to  *)
(*                MaxCalls times, each time on an input of FlowInputs.     *)
(***************************************************************************)
Init ==
    /\ conv = NewConverter
    /\ conv2 = NewConverter
    /\ fmt = NoFormat
    /\ flow = NoFlow
    /\ mat = NoTables
    /\ doc = EmptyDoc
    /\ old = EmptyDoc
    /\ calls = <<>>
    /\ faults = 0

NextConvert ==
    \/ FirstConvert
    \/ FenceLine
    \/ CodeLine
    \/ TableLine
    \/ BlockLine
    \/ ConvertReturn

SpecConvert == Init /\ [][NextConvert]_vars

NextInline == FormatCall

SpecInline == Init /\ [][NextInline]_vars

InitFlow ==
    /\ conv = NewConverter
    /\ conv2 = NewConverter
    /\ fmt = NoFormat
    /\ mat = NoTables
    /\ calls = <<>>
    /\ faults = 0
    /\ \/ /\ flow = [NoFlow EXCEPT !.kind = "create", !.pc = "convert"]
          /\ doc = EmptyDoc
       \/ /\ \E append \in BOOLEAN :
                flow = [NoFlow EXCEPT !.kind = "update", !.append = append,
                                      !.pc = IF append THEN "convert" ELSE "clear"]
          /\ doc \in ExistingDocs
    /\ old = doc

NextFlow ==
    \/ FlowClear
    \/ FlowConvert
    \/ FenceLine
    \/ CodeLine
    \/ TableLine
    \/ BlockLine
    \/ ConvertReturn
    \/ FlowBatch1
    \/ FlowTables
    \/ MatInsert
    \/ MatFetch1
    \/ MatContent
    \/ MatFetch2
    \/ MatBold
    \/ MatReturn
    \/ FlowTablesDone

SpecFlow == InitFlow /\ [][NextFlow]_vars

\* two converter objects, each converting one of the documents of FlowInputs
PairConvert == conv.pc = "idle" /\ Convert(FlowInputs)

NextPair ==
    \/ PairConvert
    \/ FenceLine
    \/ CodeLine
    \/ TableLine
    \/ BlockLine
    \/ ConvertReturn
    \/ PeerConvert(FlowInputs)
    \/ PeerLine
    \/ PeerReturn

SpecPair == Init /\ [][NextPair]_vars

\* one convert() call of a new converter on the inputs of EdgeInputs
EdgeConvert == conv.pc = "idle" /\ Convert(EdgeInputs)

NextEdge ==
    \/ EdgeConvert
    \/ FenceLine
    \/ CodeLine
    \/ TableLine
    \/ BlockLine
    \/ ConvertReturn

SpecEdge == Init /\ [][NextEdge]_vars

\* one converter object, convert() called on it up to MaxCalls times
ReConvert == conv.entered < MaxCalls /\ Convert(FlowInputs)

NextReuse ==
    \/ ReConvert
    \/ FenceLine
    \/ CodeLine
    \/ TableLine
    \/ BlockLine
    \/ ConvertReturn

SpecReuse == Init /\ [][NextReuse]_vars

(***************************************************************************)
(* Claims about the converter.                                             *)
(***************************************************************************)
RECURSIVE TextLen(_)
TextLen(ins) == IF ins = <<>> THEN 0 ELSE Len(Head(ins).text) + TextLen(Tail(ins))

Returned == conv.pc = "returned"

\* C1: the cursor is 1 plus the total length of the inserted texts, and every
\* InsertText sits at 1 plus the total length of the InsertTexts before it.
C1_CursorInvariant ==
    LET ins == Inserts(conv.requests)
    IN  /\ conv.index = 1 + TextLen(ins)
        /\ \A k \in 1..Len(ins) : ins[k].index = 1 + TextLen(SubSeq(ins, 1, k - 1))

C1_Witness ==
    /\ Returned
    /\ Len(Inserts(conv.requests)) >= 3
    /\ conv.pending_tables # <<>>

\* C2: every span of the inline formatter satisfies 0 <= start < end <= len(clean).
C2_SpanContainment ==
    fmt.pc = "done" =>
        \A k \in 1..Len(fmt.spans) :
            /\ 0 <= fmt.spans[k][1]
            /\ fmt.spans[k][1] < fmt.spans[k][2]
            /\ fmt.spans[k][2] <= Len(fmt.clean)

\* the characters a pair of delimiters of the style takes from the text
DelimiterChars(style) == IF style = "bold" THEN 4 ELSE 2

Positions(text, ch) == {k \in 1..Len(text) : text[k] = ch}

\* no delimiter of the text can have a closing partner: at most one backtick,
\* and the asterisks are a single * or a single **
NoCloser(text) ==
    LET stars == Positions(text, "*")
    IN  /\ Cardinality(Positions(text, BT)) <= 1
        /\ Cardinality(stars) <= 2
        /\ \A a, b \in stars : a - b \in {-1, 0, 1}

\* C14: an opening delimiter without a closing one stays in the clean text
\* and gets no span: the characters missing from the clean text are exactly
\* the delimiter pairs of the recorded spans, and a text whose delimiters
\* cannot be closed comes back unchanged with no span.
C14_UnmatchedLiteral ==
    fmt.pc = "done" =>
        /\ Len(fmt.text) = Len(fmt.clean)
              + Sum([k \in 1..Len(fmt.spans) |-> DelimiterChars(fmt.spans[k][3])])
        /\ NoCloser(fmt.text) => (fmt.clean = fmt.text /\ fmt.spans = <<>>)

\* an unmatched ** in front of a matched pair of backticks
C14_Witness ==
    /\ fmt.pc = "done"
    /\ fmt.text = <<"*", "*", BT, "a", BT>>
    /\ fmt.clean = <<"*", "*", "a">>
    /\ fmt.spans = << <<2, 3, "Courier New">> >>

\* C3: a fence still open at the end of the input is flushed as a code block:
\* the batch ends with the InsertText of the buffered lines and its two style ops.
C3_UnterminatedFenceFlushed ==
    (Returned /\ conv.in_code_block /\ conv.code_lines # <<>>) =>
        LET reqs == conv.requests
            n == Len(reqs)
        IN  /\ n >= 3
            /\ reqs[n - 2].op = "insertText"
            /\ reqs[n - 2].text = Append(join(conv.code_lines, NL), NL)
            /\ reqs[n - 1].op = "updateTextStyle"
            /\ reqs[n].op = "updateParagraphStyle"

\* the lines that convert() accumulates as table rows, computed from the input
\* alone: pipe-leading, outside code mode, not a separator, at least one cell
InCodeAt(lines, j) ==
    Cardinality({k \in 1..j : IsFenceLine(lines[k])}) % 2 = 1

IsRowLine(lines, j) ==
    /\ ~IsFenceLine(lines[j + 1])
    /\ ~InCodeAt(lines, j)
    /\ IsPipeLine(lines[j + 1])
    /\ ~IsSeparatorRow(lines[j + 1])
    /\ RowCells(lines[j + 1]) # <<>>

RECURSIVE RowsFrom(_, _)
RowsFrom(lines, j) ==
    IF j >= Len(lines) THEN <<>>
    ELSE (IF IsRowLine(lines, j) THEN <<RowCells(lines[j + 1])>> ELSE <<>>)
         \o RowsFrom(lines, j + 1)

RECURSIVE Flatten(_)
Flatten(tables) == IF tables = <<>> THEN <<>> ELSE Head(tables) \o Flatten(Tail(tables))

\* C4: every accumulated table row is in exactly one pending table at return:
\* the pending tables, laid end to end, are the row lines of the input in order.
C4_RowsKept ==
    Returned => Flatten(conv.pending_tables) = RowsFrom(conv.lines, 0)

\* a table region still open at the end of input, opened right before a fence
C4_Witness ==
    /\ Returned
    /\ conv.in_table
    /\ Len(conv.lines) >= 3
    /\ IsRowLine(conv.lines, 0)
    /\ IsFenceLine(conv.lines[2])
    /\ Len(conv.pending_tables) = 1

\* C5: blocks are emitted in source order: the InsertTexts of the batch come in
\* the order of the source lines on which their blocks begin.
C5_SourceOrder ==
    \A a, b \in 1..Len(conv.origin) : a < b => conv.origin[a] < conv.origin[b]

\* line j (0-based) of the input reaches _add_numbered
IsNumberedLine(lines, j) ==
    /\ ~IsFenceLine(lines[j + 1])
    /\ ~InCodeAt(lines, j)
    /\ ~IsPipeLine(lines[j + 1])
    /\ NumberedHead(lines[j + 1])
    /\ NumberedText(lines[j + 1]) # <<>>

\* the line with another number written in front of the dot
Renumbered(line) ==
    LET n == LeadingWS(line)
        d == RunEnd(line, n, Digits)
    IN  SubSeq(line, 1, n)
        \o (IF Slice(line, n, d) = <<"1">> THEN <<"2">> ELSE <<"1">>)
        \o SliceFrom(line, d)

\* C15: the written number of a numbered item reaches the output: the same
\* input with another number on one of its numbered lines converts to a
\* different batch.
C15_NumberPreserved ==
    Returned =>
        \A j \in 0..(Len(conv.lines) - 1) :
            IsNumberedLine(conv.lines, j) =>
                convert(NewConverter,
                        join([conv.lines EXCEPT ![j + 1] = Renumbered(@)], NL)).requests
                    # conv.requests

\* the requests the step from c to d appended
Appended(c, d) == SubSeq(d.requests, Len(c.requests) + 1, Len(d.requests))

\* C17: within a convert call only the insertion of text moves the cursor:
\* a step keeps the requests it found, advances the cursor by exactly the
\* length of the texts it inserted, whatever style, bullet, indent or
\* pending-table records it emits besides, and never moves it back.
C17_SingleWriter ==
    [][conv.pc = "loop" =>
          /\ SubSeq(conv'.requests, 1, Len(conv.requests)) = conv.requests
          /\ conv'.index = conv.index + TextLen(Inserts(Appended(conv, conv')))
          /\ conv'.index >= conv.index
          /\ (Inserts(Appended(conv, conv')) = <<>>) => conv'.index = conv.index]_vars

\* a conversion that emitted a bullet with its indent and a pending table
C17_Witness ==
    /\ Returned
    /\ conv.index > 1
    /\ conv.pending_tables # <<>>
    /\ \E k \in 1..Len(conv.requests) :
          /\ conv.requests[k].op = "updateParagraphStyle"
          /\ conv.requests[k].style = "indentStart"
    /\ \E k \in 1..Len(conv.requests) : conv.requests[k].op = "createParagraphBullets"

\* line j (0-based) of the input is emitted as a paragraph, bullet or numbered
\* block, the blocks whose text goes through the inline formatter
IsSpanBlock(lines, j) ==
    LET line == lines[j + 1]
    IN  /\ ~IsFenceLine(line)
        /\ ~InCodeAt(lines, j)
        /\ ~IsPipeLine(line)
        /\ \A n \in 1..4 : ~startswith(line, [k \in 1..n |-> "#"] \o <<" ">>)
        /\ strip(line) \notin {<<"-", "-", "-">>, <<"*", "*", "*">>, <<"_", "_", "_">>}
        /\ IF BulletHead(line) THEN BulletText(line) # <<>>
           ELSE IF NumberedHead(line) THEN NumberedText(line) # <<>>
           ELSE strip(line) # <<>>

\* the text of the block as the source line gives it
BlockText(line) ==
    IF BulletHead(line) THEN BulletText(line)
    ELSE IF NumberedHead(line) THEN NumberedText(line)
    ELSE strip(line)

\* the updateTextStyle requests emitted for the block of the m-th InsertText
SpanOps(reqs, m) ==
    LET at == SelectSeq([k \in 1..Len(reqs) |-> k], LAMBDA k : IsInsert(reqs[k]))
        last == IF m < Len(at) THEN at[m + 1] - 1 ELSE Len(reqs)
    IN  SelectSeq(SubSeq(reqs, at[m] + 1, last), LAMBDA r : r.op = "updateTextStyle")

Delimiter(style) ==
    IF style = "bold" THEN <<"*", "*">> ELSE IF style = "italic" THEN <<"*">> ELSE <<BT>>

\* X stands between a pair of delimiters of the style in the source line
Between(line, style, X) ==
    LET around == Delimiter(style) \o X \o Delimiter(style)
    IN  \E p \in 0..Len(line) : Slice(line, p, p + Len(around)) = around

\* C20: a paragraph, bullet or numbered block inserted at s gets exactly one
\* text-style op per span (a, b, style) of its text, over [s + a, s + b), and
\* in the document the batch builds that range holds the text that stood
\* between the delimiters in the source line.
C20_SpansAbsolute ==
    Returned =>
        LET ins == Inserts(conv.requests)
            body == HostBatch(EmptyDoc, conv.requests).doc.body
        IN  \A m \in 1..Len(ins) :
                IsSpanBlock(conv.lines, conv.origin[m]) =>
                    LET line == conv.lines[conv.origin[m] + 1]
                        spans == _parse_inline_formatting(BlockText(line)).spans
                        s == ins[m].index
                        ops == SpanOps(conv.requests, m)
                    IN  /\ Len(ops) = Len(spans)
                        /\ \A k \in 1..Len(ops) :
                              /\ ops[k].startIndex = s + spans[k][1]
                              /\ ops[k].endIndex = s + spans[k][2]
                              /\ ops[k].style = spans[k][3]
                              /\ Between(line, ops[k].style,
                                         SubSeq(body, ops[k].startIndex, ops[k].endIndex - 1))

\* a bold paragraph after a heading, then a bullet with an italic span
C20_Witness ==
    /\ Returned
    /\ conv.lines = << <<"#", " ", "T">>, <<"a", "*", "*", "b", "*", "*">>,
                       <<"-", " ", "*", "c", "*">> >>
    /\ SpanOps(conv.requests, 2) = <<UpdateTextStyleReq(4, 5, "bold")>>
    /\ SpanOps(conv.requests, 3) = <<UpdateTextStyleReq(6, 7, "italic")>>

\* C21: every convert call starts from cursor 1 and an empty request list:
\* whatever was converted on the object before, the requests of a call are
\* those a new converter returns for the same input.
C21_ConvertResets ==
    /\ conv.pc = "loop" =>
          (conv.i = 0 => (conv.index = 1 /\ conv.requests = <<>>))
    /\ Returned =>
          conv.requests = convert(NewConverter, join(conv.lines, NL)).requests

\* the second call on the object has returned, after a first one with output
C21_Witness ==
    /\ Returned
    /\ conv.entered = 2
    /\ conv.requests # <<>>
    /\ Len(conv.pending_tables) > Len(SelectSeq(conv.requests, IsPlaceholder))

\* the input of the conversion with a paragraph line put in front: every
\* placeholder moves two offsets down
Shifted(lines) == join(<< <<"x">> >> \o lines, NL)

\* C22: a pending table carries the position of its placeholder, and the i-th
\* pending table belongs to the i-th placeholder: there are as many pending
\* tables as placeholder inserts, and moving the table to another position
\* gives another pending table.
C22_PendingTableHasPosition ==
    (Returned /\ get_pending_tables(conv) # <<>>) =>
        /\ Len(get_pending_tables(conv)) = Len(SelectSeq(conv.requests, IsPlaceholder))
        /\ get_pending_tables(convert(NewConverter, Shifted(conv.lines)))
              # get_pending_tables(conv)

\* line j (0-based) reaches the table branch of the loop (431)
PipeLineAt(lines, j) ==
    /\ ~IsFenceLine(lines[j + 1])
    /\ ~InCodeAt(lines, j)
    /\ IsPipeLine(lines[j + 1])

SeparatorChars == {"-", ":"} \cup WS

\* some cell of the line has a character that is no dash, colon or whitespace
HasRealText(line) ==
    \E n \in 1..Len(RowCells(line)) :
        \E k \in 1..Len(RowCells(line)[n]) : RowCells(line)[n][k] \notin SeparatorChars

\* the line has cells, and each is a non-empty run of dashes, colons, whitespace
OnlySeparatorCells(line) ==
    /\ RowCells(line) # <<>>
    /\ \A n \in 1..Len(RowCells(line)) :
          /\ RowCells(line)[n] # <<>>
          /\ \A k \in 1..Len(RowCells(line)[n]) : RowCells(line)[n][k] \in SeparatorChars

\* the rows of all pending tables
PendingRows(c) ==
    {Flatten(c.pending_tables)[n] : n \in 1..Len(Flatten(c.pending_tables))}

\* C23: a pipe-leading line is skipped as a separator row exactly when all
\* its cells are dashes, colons and whitespace: a line with a cell of real
\* text is kept as a row of a pending table, whatever its first cell holds.
C23_SeparatorIffAllCells ==
    Returned =>
        \A j \in 0..(Len(conv.lines) - 1) :
            PipeLineAt(conv.lines, j) =>
                /\ HasRealText(conv.lines[j + 1])
                      => RowCells(conv.lines[j + 1]) \in PendingRows(conv)
                /\ OnlySeparatorCells(conv.lines[j + 1])
                      => RowCells(conv.lines[j + 1]) \notin PendingRows(conv)

\* the requests emitted after the m-th InsertText and before the next one
BlockOps(reqs, m) ==
    LET at == SelectSeq([k \in 1..Len(reqs) |-> k], LAMBDA k : IsInsert(reqs[k]))
        last == IF m < Len(at) THEN at[m + 1] - 1 ELSE Len(reqs)
    IN  SubSeq(reqs, at[m] + 1, last)

IsIndent(r) == r.op = "updateParagraphStyle" /\ r.style = "indentStart"

\* line j (0-based) is emitted as a bullet or a numbered item
IsListLine(lines, j) ==
    /\ IsSpanBlock(lines, j)
    /\ (BulletHead(lines[j + 1]) \/ NumberedHead(lines[j + 1]))

\* C25: a list item written with n leading whitespace characters has nesting
\* level n div 2; its block has one indent op over the inserted range with
\* magnitude 36 * level when the level is above 0, and none otherwise.
C25_IndentByLevel ==
    Returned =>
        LET ins == Inserts(conv.requests)
        IN  \A m \in 1..Len(ins) :
                IsListLine(conv.lines, conv.origin[m]) =>
                    LET level == LeadingWS(conv.lines[conv.origin[m] + 1]) \div 2
                        s == ins[m].index
                    IN  SelectSeq(BlockOps(conv.requests, m), IsIndent) =
                            IF level > 0
                            THEN <<UpdateParagraphStyleReq(s, s + Len(ins[m].text),
                                                           "indentStart", 36 * level)>>
                            ELSE <<>>

\* a bullet at level 2 and a numbered item at level 1
C25_Witness ==
    /\ Returned
    /\ conv.lines = << <<" ", " ", " ", " ", "-", " ", "y">>,
                       <<" ", " ", " ", "2", ".", " ", "z">> >>
    /\ SelectSeq(conv.requests, IsIndent) =
          << UpdateParagraphStyleReq(1, 3, "indentStart", 72),
             UpdateParagraphStyleReq(3, 5, "indentStart", 36) >>

\* C26: after any number of convert calls on one converter the pending tables
\* are those of the latest call: as many as that call inserted placeholders,
\* and none of an earlier call.
C26_PendingTablesOfLastCall ==
    Returned =>
        /\ Len(get_pending_tables(conv)) = Len(SelectSeq(conv.requests, IsPlaceholder))
        /\ get_pending_tables(conv)
              = get_pending_tables(convert(NewConverter, join(conv.lines, NL)))

\* line j (0-based) is a non-blank line outside a code fence that the loop
\* does not take for a separator row
IsContentLine(lines, j) ==
    /\ strip(lines[j + 1]) # <<>>
    /\ ~IsFenceLine(lines[j + 1])
    /\ ~InCodeAt(lines, j)
    /\ ~(IsPipeLine(lines[j + 1]) /\ IsSeparatorRow(lines[j + 1]))

\* C28: no content line is dropped: a pipe-leading one is a row of a pending
\* table, any other one is the source of exactly one InsertText.
C28_NoLineDropped ==
    Returned =>
        \A j \in 0..(Len(conv.lines) - 1) :
            IsContentLine(conv.lines, j) =>
                IF IsPipeLine(conv.lines[j + 1])
                THEN /\ RowCells(conv.lines[j + 1]) # <<>>
                     /\ RowCells(conv.lines[j + 1]) \in PendingRows(conv)
                ELSE Cardinality({m \in 1..Len(conv.origin) : conv.origin[m] = j}) = 1

\* C29: every style op of the batch comes after the InsertText whose text it
\* styles and its range lies inside that InsertText's range, so it addresses
\* no offset the ops before it have not created.
C29_StyleAfterInsert ==
    \A p \in 1..Len(conv.requests) :
        ~IsInsert(conv.requests[p]) =>
            LET before == Inserts(SubSeq(conv.requests, 1, p - 1))
                r == conv.requests[p]
            IN  /\ before # <<>>
                /\ before[Len(before)].index <= r.startIndex
                /\ r.startIndex <= r.endIndex
                /\ r.endIndex <= before[Len(before)].index + Len(before[Len(before)].text)
                /\ r.endIndex <= 1 + TextLen(before)

\* a heading, a paragraph with a bold span and an indented bullet: three
\* InsertTexts and the four style ops behind them
C29_Witness ==
    /\ Returned
    /\ conv.lines = << <<"#", " ", "T">>, <<"a", "*", "*", "b", "*", "*">>,
                       <<" ", " ", "-", " ", "y">> >>
    /\ [p \in 1..Len(conv.requests) |-> conv.requests[p].op] =
          <<"insertText", "updateParagraphStyle", "insertText", "updateTextStyle",
            "insertText", "createParagraphBullets", "updateParagraphStyle">>

\* what convert() returns for the input of c on a converter of its own
Alone(c) == convert(NewConverter, join(c.lines, NL))

SameOutput(c) ==
    /\ c.requests = Alone(c).requests
    /\ get_pending_tables(c) = get_pending_tables(Alone(c))

\* C16: two conversions on two converter objects, interleaved in any order,
\* each return the requests and pending tables they return when run alone.
C16_ConvertersIndependent ==
    /\ conv.pc = "returned" => SameOutput(conv)
    /\ conv2.pc = "returned" => SameOutput(conv2)

\* both have returned, on different documents that both hold a table
C16_Witness ==
    /\ conv.pc = "returned"
    /\ conv2.pc = "returned"
    /\ conv.lines # conv2.lines
    /\ Len(conv.pending_tables) = 2
    /\ Len(conv2.pending_tables) = 1
    /\ Len(conv2.requests) > 1

(***************************************************************************)
(* Claims about the table materializer and the two flows.                  *)
(***************************************************************************)
CallsOf(phase) ==
    {j \in 1..Len(calls) : calls[j].phase = phase}

\* C6: the InsertTexts of every content commit are in strictly descending
\* order of their index.
C6_DescendingOffsets ==
    \A j \in CallsOf("content") :
        \A a, b \in 1..Len(calls[j].requests) :
            a < b => calls[j].requests[a].index > calls[j].requests[b].index

C6_Witness ==
    \E j \in CallsOf("content") : calls[j].ok /\ Len(calls[j].requests) >= 3

\* the text table_rows gives for cell (r, c): empty where the row has no such cell
Wanted(table_rows, r, c) ==
    IF r <= Len(table_rows) /\ c <= Len(table_rows[r]) THEN table_rows[r][c] ELSE <<>>

\* C7: after the content commit of a pending table whose snapshot showed the
\* structural insert, the new table of the host holds in every cell (r, c) the
\* text of rowMatrix[r][c], and nothing where rowMatrix has no such entry.
C7_CellsHoldRowMatrix ==
    (mat.pc = "fetch2" /\ mat.fresh) =>
        LET tbl == doc.tables[Len(doc.tables)]
        IN  /\ Len(tbl) = NumRows(MatTable)
            /\ \A r \in 1..Len(tbl) :
                  /\ Len(tbl[r]) = NumCols(MatTable)
                  /\ \A c \in 1..Len(tbl[r]) : tbl[r][c] = Wanted(MatTable, r, c)

\* the second table of a document has been filled, around an empty cell
C7_Witness ==
    /\ mat.pc = "fetch2"
    /\ mat.fresh
    /\ mat.k = 2
    /\ Len(mat.cell_requests) = 2
    /\ doc.tables[2][1] = << <<"D">>, <<>>, <<"E", "F">> >>

\* the calls that carry the structural insert of pending table k
StructuralInserts(k) ==
    {j \in CallsOf("insert") : calls[j].table = k}

\* C8: when insert_tables has returned, a structural insert was issued for
\* every pending table, whatever failed for the tables before it.
C8_EveryTableAttempted ==
    mat.pc = "returned" =>
        \A k \in 1..Len(mat.tables) : StructuralInserts(k) # {}

\* C9: a snapshot that does not show the just-inserted table is fetched again
\* before the materializer goes on.
C9_StaleSnapshotRetried ==
    \A j \in CallsOf("fetch1") :
        (calls[j].ok /\ calls[j].stale) =>
            IF j < Len(calls)
            THEN calls[j + 1].phase = "fetch1" /\ calls[j + 1].table = calls[j].table
            ELSE mat.pc = "fetch1"

\* the number of table placeholders committed by batch #1
PlaceholdersCommitted ==
    Sum([j \in 1..Len(calls) |->
            IF calls[j].phase = "batch1" /\ calls[j].ok
            THEN Len(SelectSeq(calls[j].requests, IsPlaceholder)) ELSE 0])

\* C10: when a flow has finished, the host has received one structural table
\* insert for every placeholder that batch #1 committed.
C10_TablesMaterialized ==
    flow.pc = "done" =>
        Cardinality(CallsOf("insert")) >= PlaceholdersCommitted

\* the update flow in append mode has committed batch #1: old is the document
\* as it was before that commit, the only one the flow makes
AppendCommitted ==
    /\ flow.kind = "update"
    /\ flow.append
    /\ flow.pc = "done"
    /\ flow.success = "True"
    /\ conv.requests # <<>>

\* C11: in append mode the new text comes after the existing content: every
\* InsertText of the batch lands at or after the end of the text that was
\* there, and the existing body text still opens the document.
C11_AppendAfterExisting ==
    AppendCommitted =>
        /\ \A k \in 1..Len(conv.requests) :
              IsInsert(conv.requests[k]) => conv.requests[k].index >= DocEnd(old) - 1
        /\ startswith(doc.body, old.body)

\* the commits made for pending table k after its structural insert
FillCommits(k) ==
    {j \in CallsOf("content") \cup CallsOf("bold") : calls[j].table = k}

\* C12: a table abandoned because the snapshot shows no table element gets no
\* content and no bold commit, and insert_tables does not return plain True
\* for a run in which a table was abandoned.
C12_SkippedTableReported ==
    /\ \A k \in mat.warned : FillCommits(k) = {}
    /\ (mat.pc = "returned" /\ mat.warned # {}) => mat.result # "True"

\* the commits of a conversion: batch #1 and the commits of the materializer
ConversionPhases == {"batch1", "insert", "content", "bold"}

FailedCommits ==
    {j \in 1..Len(calls) :
        calls[j].call = "batchUpdate" /\ calls[j].phase \in ConversionPhases /\ ~calls[j].ok}

IsDelete(r) == r.op = "deleteContentRange"

\* the document that results from d by the successful commits of log, in order
RECURSIVE Replay(_, _)
Replay(d, log) ==
    IF log = <<>> THEN d
    ELSE Replay(IF Head(log).call = "batchUpdate" /\ Head(log).ok
                THEN HostBatch(d, Head(log).requests).doc ELSE d,
                Tail(log))

\* C13: after a failed commit nothing is rolled back: no later call carries a
\* delete, the document is the one the successful commits built, and the
\* failure shows as a False result of batch_update or insert_tables.
C13_NoRollback ==
    /\ \A i \in FailedCommits : \A j \in (i + 1)..Len(calls) :
          SelectSeq(calls[j].requests, IsDelete) = <<>>
    /\ \E d0 \in {EmptyDoc} \cup ExistingDocs : Replay(d0, calls) = doc
    /\ \A i \in FailedCommits :
          IF calls[i].phase = "batch1"
          THEN flow.success = "False"
          ELSE mat.pc = "returned" /\ mat.result = "False"

\* the content commit failed after the structural insert went through: the
\* empty table stays
C13_Witness ==
    /\ \E i \in FailedCommits : calls[i].phase = "content"
    /\ flow.pc = "done"
    /\ flow.tables_ok = "False"
    /\ doc.tables = << << <<<<>>, <<>>>>, <<<<>>, <<>>>> >> >>

\* the host calls of insert_tables, in order
InMaterializer(e) == e.phase \in {"insert", "fetch1", "content", "fetch2", "bold"}

MatCalls == SelectSeq(calls, InMaterializer)

\* pending table k has a cell with text / a header cell with text
HasText(k) ==
    \E r \in 1..Len(mat.tables[k]) : \E c \in 1..Len(mat.tables[k][r]) :
        mat.tables[k][r][c] # <<>>

HeaderHasText(k) ==
    \E c \in 1..Len(mat.tables[k][1]) : mat.tables[k][1][c] # <<>>

\* every snapshot fetched for table k showed the commit before it
FreshFetches(k) ==
    \A j \in 1..Len(calls) :
        (calls[j].call = "get" /\ calls[j].table = k /\ InMaterializer(calls[j]))
            => ~calls[j].stale

\* call b may come right after call a
MayFollow(a, b) ==
    /\ a.ok
    /\ IF b.table = a.table
       THEN \/ a.phase = "insert" /\ b.phase = "fetch1"
            \/ a.phase = "fetch1" /\ b.phase = "content" /\ HasText(a.table)
            \/ /\ a.phase = "fetch1" /\ b.phase = "fetch2"
               /\ ~a.stale => ~HasText(a.table)
            \/ a.phase = "content" /\ b.phase = "fetch2"
            \/ /\ a.phase = "fetch2" /\ b.phase = "bold"
               /\ FreshFetches(a.table) => HeaderHasText(a.table)
       ELSE /\ b.table = a.table + 1
            /\ b.phase = "insert"
            /\ \/ a.phase = "fetch1" /\ a.stale
               \/ a.phase = "fetch2" /\ (FreshFetches(a.table) => ~HeaderHasText(a.table))
               \/ a.phase = "bold"

\* C18: per pending table, in the order of the pending tables and one table
\* after the other, the host sees: the commit of the structural insert alone,
\* a snapshot fetch, the content commit if a cell has text, a second snapshot
\* fetch, the header-bold commit if a header cell has text.
C18_HostCallOrder ==
    /\ MatCalls # <<>> => (MatCalls[1].phase = "insert" /\ MatCalls[1].table = 1)
    /\ \A j \in 1..(Len(MatCalls) - 1) : MayFollow(MatCalls[j], MatCalls[j + 1])
    /\ \A j \in 1..Len(MatCalls) :
          MatCalls[j].phase = "insert" =>
              MatCalls[j].requests =
                  <<InsertTableReq(NumRows(mat.tables[MatCalls[j].table]),
                                   NumCols(mat.tables[MatCalls[j].table]))>>
    /\ mat.pc # "idle" => mat.tables = get_pending_tables(conv)

\* two tables, each through its five calls, on a host without faults
C18_Witness ==
    /\ mat.pc = "returned"
    /\ mat.result = "True"
    /\ faults = 0
    /\ [j \in 1..Len(MatCalls) |-> <<MatCalls[j].table, MatCalls[j].phase>>] =
          << <<1, "insert">>, <<1, "fetch1">>, <<1, "content">>, <<1, "fetch2">>,
             <<1, "bold">>, <<2, "insert">>, <<2, "fetch1">>, <<2, "content">>,
             <<2, "fetch2">>, <<2, "bold">> >>

\* the second snapshot of table k has just been fetched, and it and the first
\* one showed the commit before them: the last table of doc is table k, filled
AfterFreshFetch2(k) ==
    /\ calls # <<>>
    /\ calls[Len(calls)].phase = "fetch2"
    /\ calls[Len(calls)].table = k
    /\ calls[Len(calls)].ok
    /\ FreshFetches(k)

\* the bold op of header cell c of pending table k, its text measured from
\* the start of the cell's paragraph in the document
HeaderBold(k, c) ==
    LET start == CellStart(doc, Len(doc.tables), 1, c)
    IN  UpdateTextStyleReq(start, start + Len(mat.tables[k][1][c]), "bold")

\* C19: the bold ops built from the snapshot after the content commit are one
\* op per header cell with text, in column order, over exactly the text of
\* the cell, and nothing else.
C19_HeaderBoldOps ==
    \A k \in 1..Len(mat.tables) :
        AfterFreshFetch2(k) =>
            LET cols == SelectSeq([c \in 1..Len(mat.tables[k][1]) |-> c],
                                  LAMBDA c : mat.tables[k][1][c] # <<>>)
            IN  mat.bold_requests = [n \in 1..Len(cols) |-> HeaderBold(k, cols[n])]

\* a header row with an empty cell between two cells with text
C19_Witness ==
    /\ mat.pc = "bold"
    /\ AfterFreshFetch2(2)
    /\ mat.tables[2][1] = << <<"D">>, <<>>, <<"E", "F">> >>
    /\ Len(mat.bold_requests) = 2

\* the cells of pending table k that have text and lie within the columns of
\* its header row
CellsUnderHeader(k) ==
    {p \in (1..Len(mat.tables[k])) \X (1..Len(mat.tables[k][1])) :
        Wanted(mat.tables[k], p[1], p[2]) # <<>>}

\* C24: cells beyond the header row's column count are dropped: the
\* structural insert has as many columns as the header row has cells, and the
\* content commit has one InsertText per cell with text under the header.
C24_ExtraCellsDropped ==
    /\ \A j \in CallsOf("insert") :
          calls[j].requests[1].columns = Len(mat.tables[calls[j].table][1])
    /\ \A j \in CallsOf("content") :
          FreshFetches(calls[j].table) =>
              Len(calls[j].requests) = Cardinality(CellsUnderHeader(calls[j].table))

\* the content commit of a pending table has just gone through: old is the
\* document before it, and its last table the one this pending table's
\* structural insert created
ContentJustCommitted ==
    /\ calls # <<>>
    /\ calls[Len(calls)].phase = "content"
    /\ calls[Len(calls)].ok

\* C27: the content of a pending table goes only into the table its own
\* structural insert created: the content commit leaves every other table of
\* the document as it was, also after a snapshot that predates the insert.
C27_ContentInOwnTable ==
    ContentJustCommitted =>
        /\ doc.body = old.body
        /\ \A t \in 1..(Len(doc.tables) - 1) : doc.tables[t] = old.tables[t]

\* the update flow in replace mode has finished and reports success
ReplaceSucceeded ==
    /\ flow.kind = "update"
    /\ ~flow.append
    /\ flow.pc = "done"
    /\ flow.success = "True"

\* C30: in replace mode a result of success=True means that the document
\* holds exactly the newly converted content: what batch #1 builds on an
\* empty document; a failed clear_document shows as success=False or keeps
\* the new content from being written.
C30_ReplaceHoldsOnlyNew ==
    ReplaceSucceeded => doc = HostBatch(EmptyDoc, conv.requests).doc

\* the same for the runs in which clear_document reported True
ReplaceAfterClear ==
    (ReplaceSucceeded /\ flow.cleared = "True") =>
        doc = HostBatch(EmptyDoc, conv.requests).doc

=============================================================================
